---- MODULE Spec2Model ----
(***************************************************************************)
(* Model of the experiment-grid evaluation engine of                       *)
(* Financial-Funds-Clustering: the GMMTrainer model adapter, the cluster   *)
(* evaluator and param_search, the preprocessing wrappers and the grid     *)
(* orchestrator run_all_experiments.                                       *)
(*                                                                         *)
(* The specifications share the variables; each drives one component and   *)
(* leaves the variables of the others at their idle values:                *)
(*   SpecGMM       calls on one GMMTrainer object in any order             *)
(*   SpecSearch    param_search over a parameter grid                      *)
(*   SpecPrep      the preprocessing wrappers on one train partition       *)
(*   Spec          run_all_experiments over a grid                         *)
(*   SpecRuns      the estimator calls of param_search and of main.py      *)
(*   SpecDownload  DownloadManager.download_single_month                   *)
(*   SpecSplit     data_spliter                                            *)
(*   SpecMonths    DownloadManager._internal_generate_month_range          *)
(***************************************************************************)
EXTENDS Integers, Sequences, FiniteSets, TLC

\* ------------------------------------------------------------------ bounds
\* largest hyperparameter value / cluster count drawn
MaxK == 4
\* number of calls made on the trainer object in SpecGMM
MaxCalls == 4
\* rows of the feature matrix X handed to fit / predict
XRows == 3
\* longest param_grid handed to param_search
MaxGrid == 2
\* SpecPrep: rows of the train partition, rows of test / validation, largest
\* feature value, and number of wrappers constructed on the same train
MaxTrainRows == 3
MaxOtherRows == 1
MaxVal == 2
MaxRuns == 2
\* Spec: longest list of models / cluster counts / preprocessing flags, and
\* rows of each of the caller's three frames
MaxList == 2
GridRows == 3
\* SpecRuns: most rows of each of main.py's three frames
MaxMainRows == 2
\* SpecDownload: largest retries setting, and chunks of a response body
MaxRetries == 2
NChunks == 2
\* SpecSplit: most rows of the input frame, and latest report date
MaxSplitRows == 3
MaxDate == 2
\* SpecMonths: number of years after the first one the dates are drawn from
MaxYearSpan == 1

\* ------------------------------------------------------- python helpers
\* Python None, and an Optional value as a sequence of length 0 or 1
None == <<>>
Some(x) == <<x>>

\* dict.update(kw): keys of kw override, the others are kept
DictUpdate(d, kw) ==
  [k \in (DOMAIN d) \cup (DOMAIN kw) |-> IF k \in DOMAIN kw THEN kw[k] ELSE d[k]]

\* the label vectors an estimator with k components can return for n rows
LabelVectors(n, k) == [1..n -> 0..(k - 1)]

\* np.unique(labels)
Unique(labels) == {labels[i] : i \in DOMAIN labels}

VARIABLES
  trainer,     \* SpecGMM: the GMMTrainer object, [params, model]
  t_last,      \* SpecGMM: the last call made on it and how it ended
  t_ncl,       \* SpecGMM: n_clusters supplied by set_params since the last build
  t_set,       \* SpecGMM: per key, the value last given to __init__ / set_params
  t_steps,     \* SpecGMM: number of calls made
  param_grid,  \* SpecSearch: the parameter sets to try
  ps_i,        \* SpecSearch: number of parameter sets the loop has taken
  ps_pc,       \* SpecSearch: "loop", "done" (returned) or "raised"
  ps_err,      \* SpecSearch: the exception that left param_search
  ps_eval,     \* SpecSearch: the last evaluate_clusters call, [labels, ret]
  ps_log,      \* SpecSearch: the estimator calls made, in order
  best_score,  \* SpecSearch: param_search's best_score
  best_params, \* SpecSearch: param_search's best_params
  best_labels, \* SpecSearch: param_search's best_labels
  pp_train,    \* SpecPrep: the train partition (one feature column)
  pp_w,        \* SpecPrep: the wrapper object under use, or None
  pp_out,      \* SpecPrep: what its fit_transform returned, or None
  pp_prev,     \* SpecPrep: the previous wrapper's fitted transform and output
  pp_runs,     \* SpecPrep: number of wrappers constructed
  models,      \* Spec: run_all_experiments' list of model classes
  clusters,    \* Spec: its list of cluster counts
  pre_processing_flags, \* Spec: its list of preprocessing functions (or None)
  heap,        \* Spec: the DataFrame objects, by object id
  g_next,      \* Spec: the loop variables of the next cell, or None
  g_pc,        \* Spec: "loop", "returned" or "raised"
  g_err,       \* Spec: the exception that left run_all_experiments
  all_results, \* Spec: the rows appended so far
  table,       \* Spec: the returned table, or None
  calls,       \* Spec: the run_training calls made, in order
  fits,        \* Spec: the cluster count of every fit attempted, in order
  m_pc,        \* SpecRuns: position of the main.py script
  m_rows,      \* SpecRuns: rows of main.py's train, test, validation frames
  m_model,     \* SpecRuns: main.py's model, or None
  m_pred,      \* SpecRuns: train_pred, test_pred, val_pred once computed
  m_log,       \* SpecRuns: the estimator calls main.py made, in order
  dl_force,    \* SpecDownload: the force argument of download_single_month
  dl_retries,  \* SpecDownload: self.retries
  fs,          \* SpecDownload: the files at local_path ("final") and at the .part path
  dl_init,     \* SpecDownload: the file at local_path when the call started
  dl_pc,       \* SpecDownload: position in download_single_month
  dl_url,      \* SpecDownload: index of the candidate URL under way (1 monthly, 2 annual)
  dl_attempt,  \* SpecDownload: the attempt counter
  dl_result,   \* SpecDownload: "path" or "none" once returned
  dl_reqs,     \* SpecDownload: the requests sent, with their status
  dl_att,      \* SpecDownload: the attempts finished, with their outcome
  dl_sleeps,   \* SpecDownload: the sleeps made, in tenths of a second
  dl_valid,    \* SpecDownload: the _validate_file calls made and how they ended
  dl_snap,     \* SpecDownload: the file at local_path when the current stream began
  sp_hascol,   \* SpecSplit: date_col is a column of df
  sp_dates,    \* SpecSplit: the report date of every input row (NaT if missing)
  sp_cutoff,   \* SpecSplit: val_cutoff
  sp_ratio,    \* SpecSplit: test_ratio, in tenths
  sp_pc,       \* SpecSplit: "start", "returned" or "raised"
  sp_out,      \* SpecSplit: the returned (train, test, validation), as sets of input rows
  sp_err,      \* SpecSplit: the ValueError raised
  mr_start,    \* SpecMonths: start_date, <<year, month, day>>
  mr_end,      \* SpecMonths: end_date
  mr_cur,      \* SpecMonths: the generator's cur
  mr_out,      \* SpecMonths: the dates yielded, in order
  mr_pc        \* SpecMonths: "loop" or "done"

gmmVars == <<trainer, t_last, t_ncl, t_set, t_steps>>
searchVars == <<param_grid, ps_i, ps_pc, ps_err, ps_eval, ps_log,
                best_score, best_params, best_labels>>
prepVars == <<pp_train, pp_w, pp_out, pp_prev, pp_runs>>
gridVars == <<models, clusters, pre_processing_flags, heap, g_next, g_pc, g_err,
              all_results, table, calls, fits>>
mainVars == <<m_pc, m_rows, m_model, m_pred, m_log>>
coreVars == <<gmmVars, searchVars, prepVars, gridVars>>
dlVars == <<dl_force, dl_retries, fs, dl_init, dl_pc, dl_url, dl_attempt, dl_result,
            dl_reqs, dl_att, dl_sleeps, dl_valid, dl_snap>>
splitVars == <<sp_hascol, sp_dates, sp_cutoff, sp_ratio, sp_pc, sp_out, sp_err>>
monthVars == <<mr_start, mr_end, mr_cur, mr_out, mr_pc>>
auxVars == <<splitVars, monthVars>>
extVars == <<mainVars, dlVars, auxVars>>
vars == <<coreVars, extVars>>

\* the main.py variables while another component is driven
Main_Idle ==
  /\ m_pc = "idle"
  /\ m_rows = <<>>
  /\ m_model = <<>>
  /\ m_pred = <<>>
  /\ m_log = <<>>

\* the downloader variables while another component is driven
DL_Idle ==
  /\ dl_force = FALSE
  /\ dl_retries = 0
  /\ fs = <<>>
  /\ dl_init = <<>>
  /\ dl_pc = "idle"
  /\ dl_url = 0
  /\ dl_attempt = 0
  /\ dl_result = "-"
  /\ dl_reqs = <<>>
  /\ dl_att = <<>>
  /\ dl_sleeps = <<>>
  /\ dl_valid = <<>>
  /\ dl_snap = <<>>

\* the data_spliter variables while another component is driven
Split_Idle ==
  /\ sp_hascol = FALSE
  /\ sp_dates = <<>>
  /\ sp_cutoff = 0
  /\ sp_ratio = 0
  /\ sp_pc = "idle"
  /\ sp_out = <<>>
  /\ sp_err = "-"

\* the month-range variables while another component is driven
Months_Idle ==
  /\ mr_start = <<>>
  /\ mr_end = <<>>
  /\ mr_cur = <<>>
  /\ mr_out = <<>>
  /\ mr_pc = "idle"

Aux_Idle == Split_Idle /\ Months_Idle

\* the variables of the later components while another one is driven
Ext_Idle == Main_Idle /\ DL_Idle /\ Aux_Idle

\* the preprocessing variables while another component is driven
Prep_Idle ==
  /\ pp_train = <<>>
  /\ pp_w = None
  /\ pp_out = None
  /\ pp_prev = None
  /\ pp_runs = 0

\* the grid variables while another component is driven
Grid_Idle ==
  /\ models = <<>>
  /\ clusters = <<>>
  /\ pre_processing_flags = <<>>
  /\ heap = <<>>
  /\ g_next = None
  /\ g_pc = "idle"
  /\ g_err = None
  /\ all_results = <<>>
  /\ table = None
  /\ calls = <<>>
  /\ fits = <<>>

\* ------------------------------------------------- GMMTrainer (gmm.py)
ParamKeys == {"n_components", "random_state", "n_init", "n_clusters"}

\* GMMTrainer(): n_components=2, random_state=0, n_init=1, model = None
GMM_init ==
  [params |-> [k \in {"n_components", "random_state", "n_init"} |->
                 CASE k = "n_components" -> 2
                   [] k = "random_state" -> 0
                   [] k = "n_init" -> 1],
   model |-> None]

\* set_params(**kwargs): self.params.update(kwargs)
GMM_set_params(t, kw) == [t EXCEPT !.params = DictUpdate(t.params, kw)]

\* the dict after  params['n_components'] = params.pop('n_clusters')
RenameNClusters(p) ==
  [k \in ((DOMAIN p) \ {"n_clusters"}) \cup {"n_components"} |->
     IF k = "n_components" THEN p["n_clusters"] ELSE p[k]]

\* a build that forgets the rename and hands the stored dict to the estimator
GMM_build_norename(t) ==
  [params |-> t.params,
   model |-> Some([kwargs |-> t.params, fitted |-> FALSE])]

\* build(): rename n_clusters, then GaussianMixture(**self.params)
GMM_build(t) ==
  LET p == IF "n_clusters" \in DOMAIN t.params
           THEN RenameNClusters(t.params) ELSE t.params
  IN [params |-> p, model |-> Some([kwargs |-> p, fitted |-> FALSE])]

\* how fit(X) ends for X of n rows: self.model is None -> AttributeError;
\* GaussianMixture.fit rejects n_components > n_samples with ValueError
GMM_fit_result(t, n) ==
  IF t.model = None THEN "AttributeError"
  ELSE IF t.model[1].kwargs["n_components"] > n THEN "ValueError"
  ELSE "ok"

\* fit(X): self.model.fit(X)
GMM_fit(t, n) ==
  IF GMM_fit_result(t, n) = "ok"
  THEN [t EXCEPT !.model = Some([t.model[1] EXCEPT !.fitted = TRUE])]
  ELSE t

\* how predict(X) ends: None -> AttributeError; an estimator that was never
\* fit -> sklearn's NotFittedError
GMM_predict_result(t) ==
  IF t.model = None THEN "AttributeError"
  ELSE IF ~t.model[1].fitted THEN "NotFittedError"
  ELSE "ok"

\* the labels predict(X) may return: one per row, in [0, n_components)
GMM_predict_labels(t, n) == LabelVectors(n, t.model[1].kwargs["n_components"])

\* ------------------------------------------------------------- SpecGMM
LastCall(op, t, res) ==
  [op |-> op, built |-> t.model # None,
   fitted |-> (t.model # None /\ t.model[1].fitted), ncl |-> t_ncl,
   result |-> res]

GMM_Idle ==
  /\ trainer = GMM_init
  /\ t_last = [op |-> "init", built |-> FALSE, fitted |-> FALSE, ncl |-> None,
               result |-> "ok"]
  /\ t_ncl = None
  /\ t_set = GMM_init.params
  /\ t_steps = 0

T_SetParams(k, v) ==
  /\ t_steps < MaxCalls
  /\ UNCHANGED <<searchVars, prepVars, gridVars, extVars>>
  /\ trainer' = GMM_set_params(trainer, [x \in {k} |-> v])
  /\ t_last' = LastCall("set_params", trainer, "ok")
  /\ t_ncl' = IF k = "n_clusters" THEN Some(v) ELSE t_ncl
  /\ t_set' = DictUpdate(t_set, [x \in {k} |-> v])
  /\ t_steps' = t_steps + 1

T_Build ==
  /\ t_steps < MaxCalls
  /\ UNCHANGED <<searchVars, prepVars, gridVars, extVars>>
  /\ trainer' = GMM_build(trainer)
  /\ t_last' = [LastCall("build", trainer, "ok") EXCEPT !.built = TRUE]
  /\ t_ncl' = None
  /\ t_set' = t_set
  /\ t_steps' = t_steps + 1

T_Fit ==
  /\ t_steps < MaxCalls
  /\ UNCHANGED <<searchVars, prepVars, gridVars, extVars>>
  /\ trainer' = GMM_fit(trainer, XRows)
  /\ t_last' = LastCall("fit", trainer, GMM_fit_result(trainer, XRows))
  /\ UNCHANGED <<t_ncl, t_set>>
  /\ t_steps' = t_steps + 1

T_Predict ==
  /\ t_steps < MaxCalls
  /\ UNCHANGED <<searchVars, prepVars, gridVars, extVars>>
  /\ t_last' = LastCall("predict", trainer, GMM_predict_result(trainer))
  /\ UNCHANGED <<trainer, t_ncl, t_set>>
  /\ t_steps' = t_steps + 1

\* ------------------------------------- cluster evaluator (cluster_search.py)
\* floats: negative infinity, and the finite value v
NegInf == [neginf |-> TRUE, v |-> 0]
Fin(v) == [neginf |-> FALSE, v |-> v]
\* a > b on floats
Gt(a, b) == ~a.neginf /\ (b.neginf \/ a.v > b.v)

\* values silhouette_score / calinski_harabasz_score may return
SilVals == {Fin(0), Fin(1)}
CalVals == {Fin(1)}

\* evaluate_clusters(X, labels) for X of n rows, where sil and cal are what
\* the two sklearn scores compute on (X, labels).  At most one distinct label:
\* the bare float -inf.  Otherwise the dict of the two scores; both sklearn
\* scores reject a labelling with as many labels as samples with ValueError.
evaluate_clusters(n, labels, sil, cal) ==
  IF Cardinality(Unique(labels)) <= 1
  THEN [kind |-> "float", value |-> NegInf]
  ELSE IF Cardinality(Unique(labels)) >= n
  THEN [kind |-> "raise", error |-> "ValueError"]
  ELSE [kind |-> "dict", silhouette |-> sil, calinski |-> cal]

\* --------------------------------------------- param_search (SpecSearch)
ParamSets == {[x \in {"n_clusters"} |-> c] : c \in 1..MaxK}

Search_Idle ==
  /\ param_grid = <<>>
  /\ ps_i = 0
  /\ ps_pc = "idle"
  /\ ps_err = None
  /\ ps_eval = None
  /\ ps_log = <<>>
  /\ best_score = NegInf
  /\ best_params = None
  /\ best_labels = None

\* the adapter of one loop iteration after model_cls(), set_params, build
PS_Built(params) == GMM_build(GMM_set_params(GMM_init, params))

\* one estimator object shared by all iterations
NewModel_shared(i) == 1

\* model = model_cls(): the object created in iteration i is a new one
NewModel(i) == i

\* one estimator call of iteration i, on the object of that iteration
PS_Call(i, op, X) == [cfg |-> i, obj |-> NewModel(i), op |-> op, X |-> X]

\* the estimator calls of one iteration up to and including fit
PS_Calls(i) == <<PS_Call(i, "new", "-"), PS_Call(i, "set_params", "-"),
                 PS_Call(i, "build", "-"), PS_Call(i, "fit", "X")>>

\* one iteration in which model.fit(X) raises: the exception leaves param_search
PS_IterFitRaises ==
  /\ ps_pc = "loop" /\ ps_i < Len(param_grid)
  /\ LET t == PS_Built(param_grid[ps_i + 1])
     IN /\ GMM_fit_result(t, XRows) # "ok"
        /\ ps_err' = Some(GMM_fit_result(t, XRows))
  /\ ps_pc' = "raised"
  /\ ps_i' = ps_i + 1
  /\ ps_log' = ps_log \o PS_Calls(ps_i + 1)
  /\ UNCHANGED <<param_grid, ps_eval, best_score, best_params, best_labels>>
  /\ UNCHANGED <<gmmVars, prepVars, gridVars, extVars>>

\* one iteration in which evaluate_clusters raises, or returns the bare float
\* so that scores["silhouette"] raises TypeError
PS_IterScoreRaises ==
  /\ ps_pc = "loop" /\ ps_i < Len(param_grid)
  /\ LET t == PS_Built(param_grid[ps_i + 1])
     IN /\ GMM_fit_result(t, XRows) = "ok"
        /\ \E labels \in GMM_predict_labels(GMM_fit(t, XRows), XRows),
              sil \in SilVals, cal \in CalVals :
             LET scores == evaluate_clusters(XRows, labels, sil, cal)
             IN /\ scores.kind # "dict"
                /\ ps_eval' = Some([labels |-> labels, ret |-> scores])
                /\ ps_err' = IF scores.kind = "raise" THEN Some(scores.error)
                             ELSE Some("TypeError")
  /\ ps_pc' = "raised"
  /\ ps_i' = ps_i + 1
  /\ ps_log' = ps_log \o PS_Calls(ps_i + 1)
                      \o <<PS_Call(ps_i + 1, "predict", "X")>>
  /\ UNCHANGED <<param_grid, best_score, best_params, best_labels>>
  /\ UNCHANGED <<gmmVars, prepVars, gridVars, extVars>>

\* one iteration that runs to the end of the loop body
PS_Iter ==
  /\ ps_pc = "loop" /\ ps_i < Len(param_grid)
  /\ LET params == param_grid[ps_i + 1]
         t == PS_Built(params)
     IN /\ GMM_fit_result(t, XRows) = "ok"
        /\ \E labels \in GMM_predict_labels(GMM_fit(t, XRows), XRows),
              sil \in SilVals, cal \in CalVals :
             LET scores == evaluate_clusters(XRows, labels, sil, cal)
             IN /\ scores.kind = "dict"
                /\ ps_eval' = Some([labels |-> labels, ret |-> scores])
                /\ IF Gt(scores.silhouette, best_score)
                   THEN /\ best_score' = scores.silhouette
                        /\ best_params' = Some(params)
                        /\ best_labels' = Some(labels)
                   ELSE UNCHANGED <<best_score, best_params, best_labels>>
  /\ ps_i' = ps_i + 1
  /\ ps_log' = ps_log \o PS_Calls(ps_i + 1)
                      \o <<PS_Call(ps_i + 1, "predict", "X")>>
  /\ UNCHANGED <<param_grid, ps_pc, ps_err>>
  /\ UNCHANGED <<gmmVars, prepVars, gridVars, extVars>>

\* return best_params, best_score, best_labels
PS_Return ==
  /\ ps_pc = "loop" /\ ps_i = Len(param_grid)
  /\ ps_pc' = "done"
  /\ UNCHANGED <<param_grid, ps_i, ps_err, ps_eval, ps_log,
                 best_score, best_params, best_labels>>
  /\ UNCHANGED <<gmmVars, prepVars, gridVars, extVars>>

RECURSIVE SeqsUpTo(_, _)
\* the sequences over S of length at most n
SeqsUpTo(S, n) ==
  IF n = 0 THEN {<<>>}
  ELSE LET shorter == SeqsUpTo(S, n - 1)
       IN shorter \cup {Append(q, x) : q \in {r \in shorter : Len(r) = n - 1}, x \in S}

InitSearch ==
  /\ GMM_Idle /\ Prep_Idle /\ Grid_Idle /\ Ext_Idle
  /\ param_grid \in SeqsUpTo(ParamSets, MaxGrid)
  /\ ps_i = 0
  /\ ps_pc = "loop"
  /\ ps_err = None
  /\ ps_eval = None
  /\ ps_log = <<>>
  /\ best_score = NegInf
  /\ best_params = None
  /\ best_labels = None

NextSearch ==
  \/ PS_Iter
  \/ PS_IterFitRaises
  \/ PS_IterScoreRaises
  \/ PS_Return

SpecSearch == InitSearch /\ [][NextSearch]_vars

\* ------------------------------------------------------ main.py (SpecRuns)
\* The single run of the script: pre_processing, KMeans(n_clusters=2), one fit
\* on train_scaled, predict on the three scaled partitions.
MainClusters == 2

\* one estimator call of the script; its configuration is numbered 0
M_Call(op, X) == [cfg |-> 0, obj |-> 0, op |-> op, X |-> X]

\* train_scaled, test_scaled, val_scaled = pre_processing(n_components=4)
M_PreProcess ==
  /\ m_pc = "start"
  /\ m_pc' = "preprocessed"
  /\ UNCHANGED <<m_rows, m_model, m_pred, m_log>>
  /\ UNCHANGED <<coreVars, dlVars, auxVars>>

\* model = KMeans(n_clusters=2, random_state=0, n_init="auto")
M_New ==
  /\ m_pc = "preprocessed"
  /\ m_model' = Some([n_clusters |-> MainClusters, fitted |-> FALSE])
  /\ m_log' = Append(m_log, M_Call("new", "-"))
  /\ m_pc' = "built"
  /\ UNCHANGED <<m_rows, m_pred>>
  /\ UNCHANGED <<coreVars, dlVars, auxVars>>

\* model.fit(train_scaled)
M_Fit ==
  /\ m_pc = "built" /\ m_rows[1] >= MainClusters
  /\ m_model' = Some([m_model[1] EXCEPT !.fitted = TRUE])
  /\ m_log' = Append(m_log, M_Call("fit", "train_scaled"))
  /\ m_pc' = "fitted"
  /\ UNCHANGED <<m_rows, m_pred>>
  /\ UNCHANGED <<coreVars, dlVars, auxVars>>

\* model.fit(train_scaled) with fewer rows than clusters: KMeans raises
M_FitRaises ==
  /\ m_pc = "built" /\ m_rows[1] < MainClusters
  /\ m_log' = Append(m_log, M_Call("fit", "train_scaled"))
  /\ m_pc' = "raised"
  /\ UNCHANGED <<m_rows, m_model, m_pred>>
  /\ UNCHANGED <<coreVars, dlVars, auxVars>>

\* train_pred = model.predict(train_scaled)
M_PredictTrain ==
  /\ m_pc = "fitted" /\ m_model[1].fitted
  /\ \E l \in LabelVectors(m_rows[1], m_model[1].n_clusters) : m_pred' = <<l>>
  /\ m_log' = Append(m_log, M_Call("predict", "train_scaled"))
  /\ m_pc' = "pred_train"
  /\ UNCHANGED <<m_rows, m_model>>
  /\ UNCHANGED <<coreVars, dlVars, auxVars>>

\* test_pred = model.predict(test_scaled)
M_PredictTest ==
  /\ m_pc = "pred_train"
  /\ \E l \in LabelVectors(m_rows[2], m_model[1].n_clusters) :
       m_pred' = Append(m_pred, l)
  /\ m_log' = Append(m_log, M_Call("predict", "test_scaled"))
  /\ m_pc' = "pred_test"
  /\ UNCHANGED <<m_rows, m_model>>
  /\ UNCHANGED <<coreVars, dlVars, auxVars>>

\* val_pred = model.predict(val_scaled)
M_PredictVal ==
  /\ m_pc = "pred_test"
  /\ \E l \in LabelVectors(m_rows[3], m_model[1].n_clusters) :
       m_pred' = Append(m_pred, l)
  /\ m_log' = Append(m_log, M_Call("predict", "val_scaled"))
  /\ m_pc' = "done"
  /\ UNCHANGED <<m_rows, m_model>>
  /\ UNCHANGED <<coreVars, dlVars, auxVars>>

InitMain ==
  /\ GMM_Idle /\ Search_Idle /\ Prep_Idle /\ Grid_Idle /\ DL_Idle /\ Aux_Idle
  /\ m_pc = "start"
  /\ m_rows \in [1..3 -> 1..MaxMainRows]
  /\ m_model = None
  /\ m_pred = <<>>
  /\ m_log = <<>>

NextMain ==
  \/ M_PreProcess
  \/ M_New
  \/ M_Fit
  \/ M_FitRaises
  \/ M_PredictTrain
  \/ M_PredictTest
  \/ M_PredictVal

\* the experiment configurations of the repository: either a param_search
\* call or the run of main.py
InitRuns == InitSearch \/ InitMain

NextRuns == NextSearch \/ NextMain

SpecRuns == InitRuns /\ [][NextRuns]_vars

\* the estimator calls of the run under way
RunLog == ps_log \o m_log

\* --------------------------------- preprocessing wrappers (model/model.py)
\* A partition is a sequence of rows of one integer feature.  Fitted
\* parameters and transformed values are fractions kept as numerator and
\* denominator, so that no rounding enters.

\* the k-th smallest value of X (k = 1 is the minimum)
Kth(X, k) ==
  CHOOSE v \in {X[i] : i \in DOMAIN X} :
    /\ Cardinality({i \in DOMAIN X : X[i] < v}) < k
    /\ Cardinality({i \in DOMAIN X : X[i] <= v}) >= k

\* four times np.nanpercentile(X, 25 * j), linear interpolation between the
\* order statistics around position j * (n - 1) / 4
Quantile4(X, j) ==
  LET num == j * (Len(X) - 1)
      fl == num \div 4
      r == num % 4
      lo == Kth(X, fl + 1)
      hi == IF r = 0 THEN lo ELSE Kth(X, fl + 2)
  IN 4 * lo + r * (hi - lo)

\* RobustScaler().fit(X): center_ = median, scale_ = q75 - q25 with a zero
\* range replaced by 1; both kept times four
RobustScaler_fit(X) ==
  LET iqr4 == Quantile4(X, 3) - Quantile4(X, 1)
  IN [center4 |-> Quantile4(X, 2), scale4 |-> IF iqr4 = 0 THEN 4 ELSE iqr4]

\* scaler.transform(X): (x - center_) / scale_ per row
RobustScaler_transform(est, X) ==
  [i \in DOMAIN X |-> <<4 * X[i] - est.center4, est.scale4>>]

RECURSIVE SumSeq(_)
SumSeq(X) == IF X = <<>> THEN 0 ELSE X[1] + SumSeq(Tail(X))

\* PCA().fit(X) on one column: mean_ = sum / n, the single component is +1
PCA_fit(X) == [sum |-> SumSeq(X), n |-> Len(X)]

\* pca.transform(X): (x - mean_) projected on the component
PCA_transform(est, X) ==
  [i \in DOMAIN X |-> <<est.n * X[i] - est.sum, est.n>>]

\* a fit_transform that fits the scaler on train and test together
RobustScalerWrapper_fit_transform_leak(w) ==
  LET est == RobustScaler_fit(w.train_df \o w.test_df)
  IN [est |-> est,
      out |-> <<RobustScaler_transform(est, w.train_df),
                RobustScaler_transform(est, w.test_df),
                RobustScaler_transform(est, w.val_df)>>]

\* RobustScalerWrapper.fit_transform: scaler.fit_transform(train_df), then
\* scaler.transform(test_df), scaler.transform(val_df)
RobustScalerWrapper_fit_transform(w) ==
  LET est == RobustScaler_fit(w.train_df)
  IN [est |-> est,
      out |-> <<RobustScaler_transform(est, w.train_df),
                RobustScaler_transform(est, w.test_df),
                RobustScaler_transform(est, w.val_df)>>]

\* PCAWrapper.fit_transform: pca.fit_transform(train_df), then
\* pca.transform(test_df), pca.transform(val_df)
PCAWrapper_fit_transform(w) ==
  LET est == PCA_fit(w.train_df)
  IN [est |-> est,
      out |-> <<PCA_transform(est, w.train_df),
                PCA_transform(est, w.test_df),
                PCA_transform(est, w.val_df)>>]

\* ------------------------------------------------------------ SpecPrep
WrapperClasses == {"RobustScalerWrapper", "PCAWrapper"}

RECURSIVE SeqsOfLen(_, _)
\* the sequences over S of length exactly n
SeqsOfLen(S, n) ==
  IF n = 0 THEN {<<>>}
  ELSE {Append(q, x) : q \in SeqsOfLen(S, n - 1), x \in S}

\* partitions of 1..n rows with feature values 0..MaxVal
Partitions(n) == UNION {SeqsOfLen(0..MaxVal, m) : m \in 1..n}

\* Wrapper(train_df, test_df, val_df): stores the three frames and an unfitted
\* estimator; the previous wrapper's result is kept for comparison, with
\* whether the new test and validation partitions differ from its own
PP_New(cls, test, val) ==
  /\ pp_runs < MaxRuns
  /\ pp_w = None \/ pp_out # None
  /\ pp_w' = Some([cls |-> cls, train_df |-> pp_train, test_df |-> test,
                   val_df |-> val, est |-> None])
  /\ pp_prev' = IF pp_out # None
                THEN Some([cls |-> pp_w[1].cls, est |-> pp_w[1].est,
                           train |-> pp_out[1][1],
                           test_changed |-> pp_w[1].test_df # test,
                           val_changed |-> pp_w[1].val_df # val])
                ELSE pp_prev
  /\ pp_out' = None
  /\ pp_runs' = pp_runs + 1
  /\ UNCHANGED <<pp_train>>
  /\ UNCHANGED <<gmmVars, searchVars, gridVars, extVars>>

PP_RobustScaler_FitTransform ==
  /\ pp_w # None /\ pp_out = None /\ pp_w[1].cls = "RobustScalerWrapper"
  /\ LET r == RobustScalerWrapper_fit_transform(pp_w[1])
     IN /\ pp_w' = Some([pp_w[1] EXCEPT !.est = Some(r.est)])
        /\ pp_out' = Some(r.out)
  /\ UNCHANGED <<pp_train, pp_prev, pp_runs>>
  /\ UNCHANGED <<gmmVars, searchVars, gridVars, extVars>>

PP_PCA_FitTransform ==
  /\ pp_w # None /\ pp_out = None /\ pp_w[1].cls = "PCAWrapper"
  /\ LET r == PCAWrapper_fit_transform(pp_w[1])
     IN /\ pp_w' = Some([pp_w[1] EXCEPT !.est = Some(r.est)])
        /\ pp_out' = Some(r.out)
  /\ UNCHANGED <<pp_train, pp_prev, pp_runs>>
  /\ UNCHANGED <<gmmVars, searchVars, gridVars, extVars>>

InitPrep ==
  /\ GMM_Idle /\ Search_Idle /\ Grid_Idle /\ Ext_Idle
  /\ pp_train \in Partitions(MaxTrainRows)
  /\ pp_w = None
  /\ pp_out = None
  /\ pp_prev = None
  /\ pp_runs = 0

NextPrep ==
  \/ \E cls \in WrapperClasses,
        test \in Partitions(MaxOtherRows), val \in Partitions(MaxOtherRows) :
       PP_New(cls, test, val)
  \/ PP_RobustScaler_FitTransform
  \/ PP_PCA_FitTransform

SpecPrep == InitPrep /\ [][NextPrep]_vars

\* ------------------------- run_all_experiments (experiment_pipeline.py)
\* A DataFrame object: the partition its rows come from, its columns, its
\* row count and, once labelled, the configuration that labelled it.
OrigCols == {"report_date", "return", "sharpe"}
Frame(part) == [part |-> part, cols |-> OrigCols, rows |-> GridRows, by |-> None]

\* object ids of the caller's df_train, df_test, df_val
df_train == 1
df_test == 2
df_val == 3

ModelClasses == {"GMMTrainer", "KMeansTrainer"}
\* preprocessing arguments: None or a function
PreFlags == {None, Some("scale")}

MaxOf(S) == CHOOSE x \in S : \A y \in S : y <= x

\* a copy that hands back the same object
df_alias(h, id) == [heap |-> h, id |-> id]

\* df.copy(): a new object with the same content
df_copy(h, id) ==
  LET new == MaxOf(DOMAIN h) + 1
  IN [heap |-> [x \in (DOMAIN h) \cup {new} |-> IF x = new THEN h[id] ELSE h[x]],
      id |-> new]

\* run_training(model_cls, train, test, val, pre_processing, n_clusters):
\* the adapter is created, configured with n_clusters and built, fit on the
\* train frame's features, and the labels are written into the three frames
\* it was given as column 'pred'.  fit fails when there are fewer rows than
\* clusters.
run_training(h, model_cls, tr, te, va, pre_processing, n_clusters) ==
  LET t == GMM_build(GMM_set_params(GMM_init, [x \in {"n_clusters"} |-> n_clusters]))
      res == GMM_fit_result(t, h[tr].rows)
      by == Some([model |-> model_cls, n_clusters |-> n_clusters,
                  pre |-> pre_processing])
      label(f) == [f EXCEPT !.cols = @ \cup {"pred"}, !.by = by]
  IN [result |-> res,
      fit_k |-> t.model[1].kwargs["n_components"],
      heap |-> IF res = "ok"
               THEN [x \in DOMAIN h |-> IF x \in {tr, te, va} THEN label(h[x]) ELSE h[x]]
               ELSE h,
      frames |-> <<tr, te, va>>]

\* evaluate(df_res, features, look_features): one result row for the labelled
\* frame; a single label gives negative infinity for both metrics
evaluate(f) ==
  LET degenerate == f.by[1].n_clusters <= 1
  IN <<[silhouette |-> IF degenerate THEN NegInf ELSE Fin(1),
        calinski |-> IF degenerate THEN NegInf ELSE Fin(1),
        src |-> [part |-> f.part, by |-> f.by[1]]]>>

\* a list of evaluated partitions that leaves validation out
EvalList_short(frames) == <<<<"train", frames[1]>>, <<"test", frames[2]>>>>

\* the list of (name, df_res) pairs of the evaluation loop
EvalList(frames) ==
  <<<<"train", frames[1]>>, <<"test", frames[2]>>, <<"validation", frames[3]>>>>

\* tagging that writes the model name into the dataset column
Tag_mixed(results_df, name, model_name, cluster, preprocessing_name) ==
  [i \in DOMAIN results_df |->
     [silhouette |-> results_df[i].silhouette, calinski |-> results_df[i].calinski,
      src |-> results_df[i].src,
      dataset |-> model_name, model |-> model_name,
      n_clusters |-> cluster, preprocessing |-> preprocessing_name]]

\* results_df['dataset'] = name, ['model'] = model_name, ['n_clusters'] =
\* cluster, ['preprocessing'] = preprocessing_name, on every row
Tag(results_df, name, model_name, cluster, preprocessing_name) ==
  [i \in DOMAIN results_df |->
     [silhouette |-> results_df[i].silhouette, calinski |-> results_df[i].calinski,
      src |-> results_df[i].src,
      dataset |-> name, model |-> model_name,
      n_clusters |-> cluster, preprocessing |-> preprocessing_name]]

\* str(type_process.__name__) if type_process else "None"
PreprocessingName(type_process) ==
  IF type_process # None THEN type_process[1] ELSE "None"

RECURSIVE EvalAll(_, _, _, _, _)
\* the rows the evaluation loop appends for the (name, df_res) pairs in lst
EvalAll(h, lst, model_name, cluster, preprocessing_name) ==
  IF lst = <<>> THEN <<>>
  ELSE Tag(evaluate(h[lst[1][2]]), lst[1][1], model_name, cluster, preprocessing_name)
       \o EvalAll(h, Tail(lst), model_name, cluster, preprocessing_name)

\* the loop variables of the first cell: none when one of the lists is empty
FirstCell ==
  IF Len(models) > 0 /\ Len(clusters) > 0 /\ Len(pre_processing_flags) > 0
  THEN Some(<<1, 1, 1>>) ELSE None

\* nested loops with the cluster loop outermost
NextCell_swapped(c) ==
  IF c[3] < Len(pre_processing_flags) THEN Some(<<c[1], c[2], c[3] + 1>>)
  ELSE IF c[1] < Len(models) THEN Some(<<c[1] + 1, c[2], 1>>)
  ELSE IF c[2] < Len(clusters) THEN Some(<<1, c[2] + 1, 1>>)
  ELSE None

\* for model_cls in models: for cluster in clusters: for type_process in
\* pre_processing_flags: the loop variables after cell c
NextCell(c) ==
  IF c[3] < Len(pre_processing_flags) THEN Some(<<c[1], c[2], c[3] + 1>>)
  ELSE IF c[2] < Len(clusters) THEN Some(<<c[1], c[2] + 1, 1>>)
  ELSE IF c[1] < Len(models) THEN Some(<<c[1] + 1, 1, 1>>)
  ELSE None

\* the heap once the previous cell's copies are no longer referenced
Live(h) == [x \in {df_train, df_test, df_val} |-> h[x]]

\* the three copies of one cell: heap after them and the ids of the copies
CellCopies(h) ==
  LET c1 == df_copy(h, df_train)
      c2 == df_copy(c1.heap, df_test)
      c3 == df_copy(c2.heap, df_val)
  IN [heap |-> c3.heap, ids |-> <<c1.id, c2.id, c3.id>>]

\* the record of one run_training call: the cell, and whether the frames it
\* was handed were the caller's own objects or already carried a label column
CallRecord(c, h, ids) ==
  [cell |-> c,
   own |-> \E i \in 1..3 : ids[i] \in {df_train, df_test, df_val},
   labelled |-> \E i \in 1..3 : "pred" \in h[ids[i]].cols]

\* one cell of the grid, run and evaluated: copies, run_training, the
\* evaluation loop over train, test, validation
G_Cell ==
  /\ g_pc = "loop" /\ g_next # None
  /\ LET c == g_next[1]
         model_name == models[c[1]]
         cluster == clusters[c[2]]
         type_process == pre_processing_flags[c[3]]
         cp == CellCopies(Live(heap))
         r == run_training(cp.heap, model_name, cp.ids[1], cp.ids[2], cp.ids[3],
                           type_process, cluster)
     IN /\ r.result = "ok"
        /\ calls' = Append(calls, CallRecord(c, cp.heap, cp.ids))
        /\ fits' = Append(fits, r.fit_k)
        /\ heap' = r.heap
        /\ all_results' = all_results \o
             EvalAll(r.heap, EvalList(r.frames), model_name, cluster,
                     PreprocessingName(type_process))
        /\ g_next' = NextCell(c)
  /\ UNCHANGED <<models, clusters, pre_processing_flags, g_pc, g_err, table>>
  /\ UNCHANGED <<gmmVars, searchVars, prepVars, extVars>>

\* one cell whose run_training raises: nothing catches it
G_CellRaises ==
  /\ g_pc = "loop" /\ g_next # None
  /\ LET c == g_next[1]
         cp == CellCopies(Live(heap))
         r == run_training(cp.heap, models[c[1]], cp.ids[1], cp.ids[2], cp.ids[3],
                           pre_processing_flags[c[3]], clusters[c[2]])
     IN /\ r.result # "ok"
        /\ calls' = Append(calls, CallRecord(c, cp.heap, cp.ids))
        /\ fits' = Append(fits, r.fit_k)
        /\ heap' = r.heap
        /\ g_err' = Some(r.result)
  /\ g_pc' = "raised"
  /\ UNCHANGED <<models, clusters, pre_processing_flags, g_next, all_results, table>>
  /\ UNCHANGED <<gmmVars, searchVars, prepVars, extVars>>

\* return pd.concat(all_results, ignore_index=True)
G_Return ==
  /\ g_pc = "loop" /\ g_next = None /\ all_results # <<>>
  /\ table' = Some(all_results)
  /\ g_pc' = "returned"
  /\ UNCHANGED <<models, clusters, pre_processing_flags, heap, g_next, g_err,
                 all_results, calls, fits>>
  /\ UNCHANGED <<gmmVars, searchVars, prepVars, extVars>>

\* pd.concat of an empty list raises ValueError
G_ReturnEmpty ==
  /\ g_pc = "loop" /\ g_next = None /\ all_results = <<>>
  /\ g_err' = Some("ValueError")
  /\ g_pc' = "raised"
  /\ UNCHANGED <<models, clusters, pre_processing_flags, heap, g_next,
                 all_results, table, calls, fits>>
  /\ UNCHANGED <<gmmVars, searchVars, prepVars, extVars>>

Init ==
  /\ GMM_Idle /\ Search_Idle /\ Prep_Idle /\ Ext_Idle
  /\ models \in SeqsUpTo(ModelClasses, MaxList)
  /\ clusters \in SeqsUpTo(1..MaxK, MaxList)
  /\ pre_processing_flags \in SeqsUpTo(PreFlags, MaxList)
  /\ heap = [x \in {df_train, df_test, df_val} |->
               CASE x = df_train -> Frame("train")
                 [] x = df_test -> Frame("test")
                 [] x = df_val -> Frame("validation")]
  /\ g_next = FirstCell
  /\ g_pc = "loop"
  /\ g_err = None
  /\ all_results = <<>>
  /\ table = None
  /\ calls = <<>>
  /\ fits = <<>>

Next ==
  \/ G_Cell
  \/ G_CellRaises
  \/ G_Return
  \/ G_ReturnEmpty

Spec == Init /\ [][Next]_vars

\* --------------------------- DownloadManager (data_ingestion/core/downloader.py)
\* A file: where its bytes come from (0 for a file of an earlier run, or the index of the URL), what
\* the whole body is ("valid", "small": below min_download_bytes, "badzip"),
\* and how many of its chunks are written.
FileKinds == {"valid", "small", "badzip"}
File(src, kind, written) ==
  [src |-> src, kind |-> kind, written |-> written, total |-> NChunks]

\* candidates = [generate_monthly_url(...), generate_annual_url(...)]
Candidates == <<"monthly", "annual">>

\* streaming straight into local_path
TmpPath_final == "final"

\* tmp_path = local_path.with_suffix(local_path.suffix + ".part")
TmpPath == "part"

\* a validation that accepts every file
validate_file_any(f) == TRUE

\* _validate_file(local_path) passes: size at least min_download_bytes, the
\* archive opens and testzip finds no bad member
validate_file(f) == f.kind = "valid" /\ f.written = f.total

\* an existence check that ignores force
CheckExisting_noforce(exists, force) == exists

\* if local_path.exists() and not force
CheckExisting(exists, force) == exists /\ ~force

\* a 404 handled like any other HTTP error
Is404Break_never(status) == FALSE

\* if status == 404: break
Is404Break(status) == status = 404

\* a loop that admits one attempt too many
WhileAttempt_le(attempt, retries) == attempt <= retries

\* while attempt < self.retries
WhileAttempt(attempt, retries) == attempt < retries

\* backoff = 2 ** attempt, in tenths of a second
Backoff(attempt) == 10 * (2 ^ attempt)

\* time.sleep(self.throttle_seconds), 0.1 s, in tenths of a second
Throttle == 1

Sleep(kind, secs) ==
  [kind |-> kind, url |-> dl_url, attempt |-> dl_attempt, secs |-> secs]

Attempt(outcome) == [url |-> dl_url, attempt |-> dl_attempt, outcome |-> outcome]

\* the existing file is validated and accepted: return local_path
DL_ExistingValid ==
  /\ dl_pc = "start"
  /\ CheckExisting(fs["final"] # None, dl_force)
  /\ validate_file(fs["final"][1])
  /\ dl_valid' = Append(dl_valid, [which |-> "existing", ok |-> TRUE])
  /\ dl_result' = "path"
  /\ dl_pc' = "done"
  /\ UNCHANGED <<dl_force, dl_retries, fs, dl_init, dl_url, dl_attempt, dl_reqs,
                 dl_att, dl_sleeps, dl_snap>>
  /\ UNCHANGED <<coreVars, mainVars, auxVars>>

\* the existing file fails validation: fall through to the download
DL_ExistingInvalid ==
  /\ dl_pc = "start"
  /\ CheckExisting(fs["final"] # None, dl_force)
  /\ ~validate_file(fs["final"][1])
  /\ dl_valid' = Append(dl_valid, [which |-> "existing", ok |-> FALSE])
  /\ dl_pc' = "loop"
  /\ dl_url' = 1
  /\ dl_attempt' = 0
  /\ UNCHANGED <<dl_force, dl_retries, fs, dl_init, dl_result, dl_reqs, dl_att,
                 dl_sleeps, dl_snap>>
  /\ UNCHANGED <<coreVars, mainVars, auxVars>>

\* no file, or force: go to the download without validating
DL_SkipExisting ==
  /\ dl_pc = "start"
  /\ ~CheckExisting(fs["final"] # None, dl_force)
  /\ dl_pc' = "loop"
  /\ dl_url' = 1
  /\ dl_attempt' = 0
  /\ UNCHANGED <<dl_force, dl_retries, fs, dl_init, dl_result, dl_reqs, dl_att,
                 dl_sleeps, dl_valid, dl_snap>>
  /\ UNCHANGED <<coreVars, mainVars, auxVars>>

\* an attempt whose request is answered with an HTTP error status:
\* raise_for_status raises HTTPError; 404 breaks to the next candidate, any
\* other status goes to the backoff
DL_RequestHTTPError(status) ==
  /\ dl_pc = "loop" /\ dl_url <= Len(Candidates)
  /\ WhileAttempt(dl_attempt, dl_retries)
  /\ dl_reqs' = Append(dl_reqs, [url |-> dl_url, attempt |-> dl_attempt + 1,
                                 status |-> status])
  /\ dl_att' = Append(dl_att, [url |-> dl_url, attempt |-> dl_attempt + 1,
                               outcome |-> IF status = 404 THEN "404" ELSE "http_error"])
  /\ IF Is404Break(status)
     THEN /\ dl_url' = dl_url + 1
          /\ dl_attempt' = 0
          /\ dl_pc' = "loop"
     ELSE /\ dl_url' = dl_url
          /\ dl_attempt' = dl_attempt + 1
          /\ dl_pc' = "backoff"
  /\ UNCHANGED <<dl_force, dl_retries, fs, dl_init, dl_result, dl_sleeps, dl_valid,
                 dl_snap>>
  /\ UNCHANGED <<coreVars, mainVars, auxVars>>

\* an attempt whose request fails without an answer (timeout, connection
\* error): RequestException, then the backoff
DL_RequestError ==
  /\ dl_pc = "loop" /\ dl_url <= Len(Candidates)
  /\ WhileAttempt(dl_attempt, dl_retries)
  /\ dl_reqs' = Append(dl_reqs, [url |-> dl_url, attempt |-> dl_attempt + 1,
                                 status |-> 0])
  /\ dl_att' = Append(dl_att, [url |-> dl_url, attempt |-> dl_attempt + 1,
                               outcome |-> "error"])
  /\ dl_attempt' = dl_attempt + 1
  /\ dl_pc' = "backoff"
  /\ UNCHANGED <<dl_force, dl_retries, fs, dl_init, dl_url, dl_result, dl_sleeps,
                 dl_valid, dl_snap>>
  /\ UNCHANGED <<coreVars, mainVars, auxVars>>

\* an attempt whose request is answered 200 with a body of the given kind:
\* the temporary file is opened for writing
DL_RequestOk(kind) ==
  /\ dl_pc = "loop" /\ dl_url <= Len(Candidates)
  /\ WhileAttempt(dl_attempt, dl_retries)
  /\ dl_reqs' = Append(dl_reqs, [url |-> dl_url, attempt |-> dl_attempt + 1,
                                 status |-> 200])
  /\ dl_attempt' = dl_attempt + 1
  /\ dl_snap' = fs["final"]
  /\ fs' = [fs EXCEPT ![TmpPath] = Some(File(dl_url, kind, 0))]
  /\ dl_pc' = "streaming"
  /\ UNCHANGED <<dl_force, dl_retries, dl_init, dl_url, dl_result, dl_att, dl_sleeps,
                 dl_valid>>
  /\ UNCHANGED <<coreVars, mainVars, auxVars>>

\* f.write(chunk)
DL_Chunk ==
  /\ dl_pc = "streaming"
  /\ fs[TmpPath][1].written < fs[TmpPath][1].total
  /\ fs' = [fs EXCEPT ![TmpPath] = Some([fs[TmpPath][1] EXCEPT !.written = @ + 1])]
  /\ UNCHANGED <<dl_force, dl_retries, dl_init, dl_pc, dl_url, dl_attempt, dl_result,
                 dl_reqs, dl_att, dl_sleeps, dl_valid, dl_snap>>
  /\ UNCHANGED <<coreVars, mainVars, auxVars>>

\* the stream breaks before its end: RequestException, then the backoff
DL_StreamFail ==
  /\ dl_pc = "streaming"
  /\ fs[TmpPath][1].written < fs[TmpPath][1].total
  /\ dl_att' = Append(dl_att, Attempt("stream_error"))
  /\ dl_pc' = "backoff"
  /\ UNCHANGED <<dl_force, dl_retries, fs, dl_init, dl_url, dl_attempt, dl_result,
                 dl_reqs, dl_sleeps, dl_valid, dl_snap>>
  /\ UNCHANGED <<coreVars, mainVars, auxVars>>

\* tmp_path.replace(local_path) once the whole stream is written
DL_Rename ==
  /\ dl_pc = "streaming"
  /\ fs[TmpPath][1].written = fs[TmpPath][1].total
  /\ fs' = IF TmpPath = "final" THEN fs
           ELSE [x \in DOMAIN fs |-> IF x = "final" THEN fs[TmpPath] ELSE None]
  /\ dl_pc' = "renamed"
  /\ UNCHANGED <<dl_force, dl_retries, dl_init, dl_url, dl_attempt, dl_result,
                 dl_reqs, dl_att, dl_sleeps, dl_valid, dl_snap>>
  /\ UNCHANGED <<coreVars, mainVars, auxVars>>

\* the throttle sleep, then the downloaded file passes validation:
\* return local_path
DL_ValidateOk ==
  /\ dl_pc = "renamed"
  /\ validate_file(fs["final"][1])
  /\ dl_sleeps' = Append(dl_sleeps, Sleep("throttle", Throttle))
  /\ dl_valid' = Append(dl_valid, [which |-> "download", ok |-> TRUE])
  /\ dl_att' = Append(dl_att, Attempt("ok"))
  /\ dl_result' = "path"
  /\ dl_pc' = "done"
  /\ UNCHANGED <<dl_force, dl_retries, fs, dl_init, dl_url, dl_attempt, dl_reqs,
                 dl_snap>>
  /\ UNCHANGED <<coreVars, mainVars, auxVars>>

\* the throttle sleep, then the downloaded file fails validation:
\* ValueError, then the backoff
DL_ValidateFail ==
  /\ dl_pc = "renamed"
  /\ ~validate_file(fs["final"][1])
  /\ dl_sleeps' = Append(dl_sleeps, Sleep("throttle", Throttle))
  /\ dl_valid' = Append(dl_valid, [which |-> "download", ok |-> FALSE])
  /\ dl_att' = Append(dl_att, Attempt("invalid"))
  /\ dl_pc' = "backoff"
  /\ UNCHANGED <<dl_force, dl_retries, fs, dl_init, dl_url, dl_attempt, dl_result,
                 dl_reqs, dl_snap>>
  /\ UNCHANGED <<coreVars, mainVars, auxVars>>

\* time.sleep(2 ** attempt), then back to the loop test
DL_Backoff ==
  /\ dl_pc = "backoff"
  /\ dl_sleeps' = Append(dl_sleeps, Sleep("backoff", Backoff(dl_attempt)))
  /\ dl_pc' = "loop"
  /\ UNCHANGED <<dl_force, dl_retries, fs, dl_init, dl_url, dl_attempt, dl_result,
                 dl_reqs, dl_att, dl_valid, dl_snap>>
  /\ UNCHANGED <<coreVars, mainVars, auxVars>>

\* the attempts of this candidate are used up: on to the next candidate
DL_NextCandidate ==
  /\ dl_pc = "loop" /\ dl_url <= Len(Candidates)
  /\ ~WhileAttempt(dl_attempt, dl_retries)
  /\ dl_url' = dl_url + 1
  /\ dl_attempt' = 0
  /\ UNCHANGED <<dl_force, dl_retries, fs, dl_init, dl_pc, dl_result, dl_reqs,
                 dl_att, dl_sleeps, dl_valid, dl_snap>>
  /\ UNCHANGED <<coreVars, mainVars, auxVars>>

\* no candidate left: return None
DL_GiveUp ==
  /\ dl_pc = "loop" /\ dl_url > Len(Candidates)
  /\ dl_result' = "none"
  /\ dl_pc' = "done"
  /\ UNCHANGED <<dl_force, dl_retries, fs, dl_init, dl_url, dl_attempt, dl_reqs,
                 dl_att, dl_sleeps, dl_valid, dl_snap>>
  /\ UNCHANGED <<coreVars, mainVars, auxVars>>

\* a call of download_single_month: any force, any retries setting from 0,
\* any file or none at local_path, a stale .part file or none
InitDownload ==
  /\ GMM_Idle /\ Search_Idle /\ Prep_Idle /\ Grid_Idle /\ Main_Idle /\ Aux_Idle
  /\ dl_force \in BOOLEAN
  /\ dl_retries \in 0..MaxRetries
  /\ \E f \in {None} \cup {Some(File(0, k, NChunks)) : k \in FileKinds},
        t \in {None, Some(File(0, "valid", 1))} :
       fs = [x \in {"final", "part"} |-> IF x = "final" THEN f ELSE t]
  /\ dl_init = fs["final"]
  /\ dl_pc = "start"
  /\ dl_url = 1
  /\ dl_attempt = 0
  /\ dl_result = "-"
  /\ dl_reqs = <<>>
  /\ dl_att = <<>>
  /\ dl_sleeps = <<>>
  /\ dl_valid = <<>>
  /\ dl_snap = None

NextDownload ==
  \/ DL_ExistingValid
  \/ DL_ExistingInvalid
  \/ DL_SkipExisting
  \/ \E status \in {404, 500} : DL_RequestHTTPError(status)
  \/ DL_RequestError
  \/ \E kind \in FileKinds : DL_RequestOk(kind)
  \/ DL_Chunk
  \/ DL_StreamFail
  \/ DL_Rename
  \/ DL_ValidateOk
  \/ DL_ValidateFail
  \/ DL_Backoff
  \/ DL_NextCandidate
  \/ DL_GiveUp

SpecDownload == InitDownload /\ [][NextDownload]_vars

\* every request is answered or times out (timeout=self.timeout) and every
\* sleep ends, so the call keeps taking steps
SpecDownloadFair == SpecDownload /\ WF_vars(NextDownload)

\* ---------------------------------------- data_spliter (src/utils/utils.py)
\* A row is its position in the input frame; sp_dates gives its report date
\* after pd.to_datetime, NaT for a missing one.
NaT == -1

\* df[date_col] >= cutoff and df[date_col] < cutoff: a comparison with NaT
\* is False either way
DateGe(d, cutoff) == d # NaT /\ d >= cutoff
DateLt(d, cutoff) == d # NaT /\ d < cutoff

\* val_df = df[df[date_col] >= pd.to_datetime(val_cutoff)]
ValRows(dates, cutoff) == {i \in DOMAIN dates : DateGe(dates[i], cutoff)}

\* train_test_df = df[df[date_col] < pd.to_datetime(val_cutoff)]
TrainTestRows(dates, cutoff) == {i \in DOMAIN dates : DateLt(dates[i], cutoff)}

\* not 0 < test_ratio < 1, test_ratio in tenths
BadRatio(r) == ~(0 < r /\ r < 10)

\* sklearn's train_test_split with a float test_size and no train_size:
\* n_test = ceil(test_size * n_samples), n_train = n_samples - n_test
NTest(n, r) == ((r * n) + 9) \div 10
NTrain(n, r) == n - NTest(n, r)

\* the rows before the cutoff and their number
PreRows == TrainTestRows(sp_dates, sp_cutoff)
NPre == Cardinality(PreRows)

SP_Raise(err) ==
  /\ sp_pc' = "raised"
  /\ sp_err' = err
  /\ UNCHANGED <<sp_hascol, sp_dates, sp_cutoff, sp_ratio, sp_out>>
  /\ UNCHANGED <<coreVars, mainVars, dlVars, monthVars>>

\* if date_col not in df.columns: raise ValueError
SP_RaiseNoColumn ==
  /\ sp_pc = "start"
  /\ ~sp_hascol
  /\ SP_Raise("no_column")

\* if not 0 < test_ratio < 1: raise ValueError
SP_RaiseRatio ==
  /\ sp_pc = "start"
  /\ sp_hascol
  /\ BadRatio(sp_ratio)
  /\ SP_Raise("test_ratio")

\* if len(train_test_df) == 0: raise ValueError
SP_RaiseNoData ==
  /\ sp_pc = "start"
  /\ sp_hascol /\ ~BadRatio(sp_ratio)
  /\ NPre = 0
  /\ SP_Raise("no_data")

\* train_test_split raises ValueError: the resulting train set would be empty
SP_SplitRaises ==
  /\ sp_pc = "start"
  /\ sp_hascol /\ ~BadRatio(sp_ratio)
  /\ NPre > 0
  /\ NTrain(NPre, sp_ratio) = 0
  /\ SP_Raise("empty_train")

\* train_test_split shuffles the pre-cutoff rows and cuts test off them;
\* return train_df, test_df, val_df
SP_Return(test) ==
  /\ sp_pc = "start"
  /\ sp_hascol /\ ~BadRatio(sp_ratio)
  /\ NPre > 0
  /\ NTrain(NPre, sp_ratio) > 0
  /\ test \subseteq PreRows
  /\ Cardinality(test) = NTest(NPre, sp_ratio)
  /\ sp_out' = Some([train |-> PreRows \ test, test |-> test,
                     validation |-> ValRows(sp_dates, sp_cutoff)])
  /\ sp_pc' = "returned"
  /\ UNCHANGED <<sp_hascol, sp_dates, sp_cutoff, sp_ratio, sp_err>>
  /\ UNCHANGED <<coreVars, mainVars, dlVars, monthVars>>

\* a call of data_spliter: a frame of up to MaxSplitRows rows, some of them
\* without a report date, any cutoff, a test_ratio of 0, 0.2 or 0.5
InitSplit ==
  /\ GMM_Idle /\ Search_Idle /\ Prep_Idle /\ Grid_Idle
  /\ Main_Idle /\ DL_Idle /\ Months_Idle
  /\ sp_hascol \in BOOLEAN
  /\ sp_dates \in UNION {[1..n -> {NaT} \cup (0..MaxDate)] : n \in 0..MaxSplitRows}
  /\ sp_cutoff \in 0..MaxDate
  /\ sp_ratio \in {0, 2, 5}
  /\ sp_pc = "start"
  /\ sp_out = None
  /\ sp_err = "-"

NextSplit ==
  \/ SP_RaiseNoColumn
  \/ SP_RaiseRatio
  \/ SP_RaiseNoData
  \/ SP_SplitRaises
  \/ \E test \in SUBSET (DOMAIN sp_dates) : SP_Return(test)

SpecSplit == InitSplit /\ [][NextSplit]_vars

\* ------------ _internal_generate_month_range (data_ingestion/core/downloader.py)
\* A date is <<year, month, day>>; datetimes at midnight compare as the
\* triples do.
Years == 2024..(2024 + MaxYearSpan)
Days == {1, 15, 28}
Dates == {<<y, m, d>> : y \in Years, m \in 1..12, d \in Days}

DateLe(a, b) ==
  \/ a[1] < b[1]
  \/ a[1] = b[1] /\ a[2] < b[2]
  \/ a[1] = b[1] /\ a[2] = b[2] /\ a[3] <= b[3]

\* cur = datetime(s.year, s.month, 1)
FirstOfMonth(s) == <<s[1], s[2], 1>>

AdvanceMonth_sameyear(cur) == <<cur[1], (cur[2] % 12) + 1, 1>>

\* y = cur.year + (cur.month // 12); m = (cur.month % 12) + 1;
\* cur = datetime(y, m, 1)
AdvanceMonth(cur) == <<cur[1] + (cur[2] \div 12), (cur[2] % 12) + 1, 1>>

\* while cur <= e: yield cur, advance
MR_Yield ==
  /\ mr_pc = "loop"
  /\ DateLe(mr_cur, mr_end)
  /\ mr_out' = Append(mr_out, mr_cur)
  /\ mr_cur' = AdvanceMonth(mr_cur)
  /\ UNCHANGED <<mr_start, mr_end, mr_pc>>
  /\ UNCHANGED <<coreVars, mainVars, dlVars, splitVars>>

\* cur > e: the generator is exhausted
MR_Stop ==
  /\ mr_pc = "loop"
  /\ ~DateLe(mr_cur, mr_end)
  /\ mr_pc' = "done"
  /\ UNCHANGED <<mr_start, mr_end, mr_cur, mr_out>>
  /\ UNCHANGED <<coreVars, mainVars, dlVars, splitVars>>

\* a call with any two dates, in either order
InitMonths ==
  /\ GMM_Idle /\ Search_Idle /\ Prep_Idle /\ Grid_Idle
  /\ Main_Idle /\ DL_Idle /\ Split_Idle
  /\ mr_start \in Dates
  /\ mr_end \in Dates
  /\ mr_cur = FirstOfMonth(mr_start)
  /\ mr_out = <<>>
  /\ mr_pc = "loop"

NextMonths ==
  \/ MR_Yield
  \/ MR_Stop

SpecMonths == InitMonths /\ [][NextMonths]_vars

\* the consumer (list(...) in download_range) keeps asking for the next date
SpecMonthsFair == SpecMonths /\ WF_vars(NextMonths)

\* ------------------------------------------------------------ claims
\* C4: whenever the labels handed to evaluate_clusters hold at most one
\* distinct value, the result is the two-metric result with silhouette and
\* calinski both negative infinity.
C4_DegenerateBothNegInf ==
  (ps_eval # None /\ Cardinality(Unique(ps_eval[1].labels)) <= 1) =>
     /\ ps_eval[1].ret.kind = "dict"
     /\ ps_eval[1].ret.silhouette = NegInf
     /\ ps_eval[1].ret.calinski = NegInf

\* C5: a degenerate or failing parameter set never aborts or shortens the
\* evaluation: no exception leaves param_search, and when it returns every
\* parameter set of the grid was evaluated.
C5_NeverAborts ==
  /\ ps_pc # "raised"
  /\ ps_pc = "done" => ps_i = Len(param_grid)

\* C6: fit or predict before build fails with NotBuiltError, and predict
\* after build but before fit fails with NotFittedError.
C6_CallOrderErrors ==
  /\ (t_last.op \in {"fit", "predict"} /\ ~t_last.built) =>
        t_last.result = "NotBuiltError"
  /\ (t_last.op = "predict" /\ t_last.built /\ ~t_last.fitted) =>
        t_last.result = "NotFittedError"

\* C8: after set_params calls followed by build, if n_clusters was supplied
\* the estimator is constructed with n_components equal to the last supplied
\* n_clusters and without an n_clusters argument; every other stored
\* hyperparameter is passed with its last set value.
C8_BuildPassesParams ==
  t_last.op = "build" =>
    LET kw == trainer.model[1].kwargs
    IN /\ t_last.ncl # None =>
            /\ kw["n_components"] = t_last.ncl[1]
            /\ "n_clusters" \notin DOMAIN kw
       /\ "n_clusters" \notin DOMAIN t_set =>
            kw["n_components"] = t_set["n_components"]
       /\ \A k \in {"random_state", "n_init"} : kw[k] = t_set[k]

\* C8 witness: build after set_params(n_components=1), set_params(n_clusters=3)
C8_Witness ==
  /\ t_last.op = "build" /\ t_last.ncl = Some(3)
  /\ t_set["n_components"] = 1
  /\ trainer.model[1].kwargs["n_components"] = 3

\* number of cells of the grid
GridCells == Len(models) * Len(clusters) * Len(pre_processing_flags)

\* the loop variables of the n-th combination of the cartesian product, model
\* outermost, then cluster count, then preprocessing
ProductCell(n) ==
  <<((n - 1) \div (Len(clusters) * Len(pre_processing_flags))) + 1,
    (((n - 1) \div Len(pre_processing_flags)) % Len(clusters)) + 1,
    ((n - 1) % Len(pre_processing_flags)) + 1>>

\* the configuration of the combination with loop variables c
CellConfig(c) ==
  [model |-> models[c[1]], n_clusters |-> clusters[c[2]],
   pre |-> pre_processing_flags[c[3]]]

PartNames == <<"train", "test", "validation">>

\* C1: for any lists of models, cluster counts and preprocessing flags, a
\* run in which no run_training call failed ends with a returned table of
\* len(models) x len(clusters) x len(pre_processing_flags) x 3 rows.
C1_AnyListsRowCount ==
  (g_pc \in {"returned", "raised"} /\ Len(all_results) = 3 * Len(calls)) =>
     /\ g_pc = "returned"
     /\ Len(table[1]) = GridCells * 3

\* The part of C1 that holds: a table that is returned has that many rows.
ReturnedRowCount ==
  g_pc = "returned" => Len(table[1]) = GridCells * 3

\* C2: the caller's three frames keep their content throughout, and every
\* run_training call is handed objects other than the caller's, without a
\* label column from an earlier cell.
C2_FramesNotMutated ==
  g_pc # "idle" =>
    /\ heap[df_train] = Frame("train")
    /\ heap[df_test] = Frame("test")
    /\ heap[df_val] = Frame("validation")
    /\ \A i \in DOMAIN calls : ~calls[i].own /\ ~calls[i].labelled

\* C2 witness: a second cell was run after a cell wrote its label column
\* into the copies it was given
C2_Witness ==
  /\ Len(calls) >= 2 /\ Len(all_results) >= 6
  /\ \E x \in DOMAIN heap : "pred" \in heap[x].cols

\* C7: a cluster count of 1 is rejected with ConfigurationError and no fit is
\* ever attempted with cluster count 1.
C7_OneClusterRejected ==
  /\ \A i \in DOMAIN fits : fits[i] # 1
  /\ (\E i \in DOMAIN calls : clusters[calls[i].cell[2]] = 1) =>
        g_err = Some("ConfigurationError")

\* C9: run_training is invoked once per combination of the cartesian product,
\* model outermost, then cluster count, then preprocessing; the rows of the
\* returned table follow that order, train, test, validation within a cell.
C9_GridOrder ==
  g_pc # "idle" =>
    /\ Len(calls) <= GridCells
    /\ \A n \in DOMAIN calls : calls[n].cell = ProductCell(n)
    /\ g_pc = "returned" =>
         /\ Len(calls) = GridCells
         /\ \A n \in DOMAIN table[1] :
              /\ table[1][n].src.part = PartNames[((n - 1) % 3) + 1]
              /\ table[1][n].src.by = CellConfig(ProductCell(((n - 1) \div 3) + 1))

\* C9 witness: a returned grid whose three lists each hold two different entries
C9_Witness ==
  /\ g_pc = "returned" /\ Len(calls) = 8
  /\ models[1] # models[2] /\ clusters[1] # clusters[2]
  /\ pre_processing_flags[1] # pre_processing_flags[2]

\* C10: every row carries the dataset name, model name, cluster count and
\* preprocessing name of the partition and cell whose evaluation produced it.
C10_RowTags ==
  \A n \in DOMAIN all_results :
    LET row == all_results[n]
    IN /\ row.dataset = row.src.part
       /\ row.model = row.src.by.model
       /\ row.n_clusters = row.src.by.n_clusters
       /\ row.preprocessing = PreprocessingName(row.src.by.pre)

\* C10 witness: a returned table with rows of two models, two cluster counts
\* and both preprocessing names
C10_Witness ==
  /\ g_pc = "returned" /\ table = Some(all_results)
  /\ \E a, b \in DOMAIN all_results :
       /\ all_results[a].model # all_results[b].model
       /\ all_results[a].n_clusters # all_results[b].n_clusters
       /\ all_results[a].preprocessing = "None"
       /\ all_results[b].preprocessing = "scale"
       /\ all_results[a].dataset = "test" /\ all_results[b].dataset = "validation"

\* the operations made before call n of log L on the object of call n
OpsBefore(L, n) ==
  LET SameObj(e) == e.obj = L[n].obj
      q == SelectSeq(SubSeq(L, 1, n - 1), SameObj)
  IN [k \in DOMAIN q |-> q[k].op]

\* the number of fit calls made before call n of log L on the object of call n
FitsBefore(L, n) ==
  Cardinality({m \in 1..(n - 1) : L[m].obj = L[n].obj /\ L[m].op = "fit"})

\* the feature matrices that hold training features
TrainFeatures == {"X", "train_scaled"}

\* every estimator object is created once, serves one configuration, is fit
\* on training features only and predicts only after its one fit
FitOnceOnTrain(L) ==
  \A n \in DOMAIN L :
    /\ \A m \in DOMAIN L : L[m].obj = L[n].obj => L[m].cfg = L[n].cfg
    /\ L[n].op = "new" => OpsBefore(L, n) = <<>>
    /\ L[n].op = "fit" => L[n].X \in TrainFeatures /\ FitsBefore(L, n) = 0
    /\ L[n].op = "predict" => FitsBefore(L, n) = 1

\* C11: for every configuration, in param_search and in main.py, a fresh
\* estimator goes through set_params and build, then is fit exactly once on
\* the training features, then predicts; it is never fit on test or
\* validation features and never serves another configuration.
C11_SetParamsBuildFitPredict ==
  /\ FitOnceOnTrain(RunLog)
  /\ \A n \in DOMAIN RunLog :
       RunLog[n].op = "fit" =>
          OpsBefore(RunLog, n) = <<"new", "set_params", "build">>

\* C11 as amended: the same, except that main.py creates its KMeans estimator
\* with its hyperparameters and fits it without any set_params or build call.
C11_FitOncePerConfiguration ==
  /\ FitOnceOnTrain(RunLog)
  /\ \A n \in DOMAIN RunLog :
       RunLog[n].op = "fit" =>
          OpsBefore(RunLog, n) =
            IF RunLog[n].cfg = 0 THEN <<"new">>
            ELSE <<"new", "set_params", "build">>

\* C11 witness: param_search has returned after two parameter sets, each
\* with its own estimator, fit and predict
C11_Witness ==
  /\ ps_pc = "done" /\ ps_i = 2 /\ Len(RunLog) = 10
  /\ RunLog[4].op = "fit" /\ RunLog[9].op = "fit"
  /\ RunLog[4].obj # RunLog[9].obj

\* C12: the monthly URL is requested before the annual URL, and a URL that
\* answered 404 is never requested again: after a 404 from the monthly URL
\* the next request goes to the annual URL, after a 404 from the annual URL
\* no request follows.
C12_MonthlyFirstNo404Retry ==
  \A n \in DOMAIN dl_reqs :
    /\ n = 1 => Candidates[dl_reqs[n].url] = "monthly"
    /\ \A m \in DOMAIN dl_reqs :
         (m < n /\ Candidates[dl_reqs[m].url] = "annual") =>
            Candidates[dl_reqs[n].url] = "annual"
    /\ dl_reqs[n].status = 404 =>
         /\ \A m \in DOMAIN dl_reqs : m > n => dl_reqs[m].url # dl_reqs[n].url
         /\ (Candidates[dl_reqs[n].url] = "monthly" /\ n < Len(dl_reqs)) =>
               Candidates[dl_reqs[n + 1].url] = "annual"
         /\ Candidates[dl_reqs[n].url] = "annual" => n = Len(dl_reqs)

\* C12 witness: a retried monthly error, then 404 from the monthly URL, then
\* 404 from the annual URL, and the call has returned
C12_Witness ==
  /\ dl_pc = "done" /\ Len(dl_reqs) = 3
  /\ dl_reqs[1].status = 500 /\ dl_reqs[1].url = 1
  /\ dl_reqs[2].status = 404 /\ dl_reqs[2].url = 1
  /\ dl_reqs[3].status = 404 /\ dl_reqs[3].url = 2

\* the existing file was validated and accepted
AcceptedExisting ==
  dl_valid # <<>> /\ dl_valid[1].which = "existing" /\ dl_valid[1].ok

\* the ways an attempt fails
FailedOutcomes == {"404", "http_error", "error", "stream_error", "invalid"}

\* C13: the local path is returned only if the file at that path passed
\* validation (size and ZIP integrity) during the call; None is returned
\* exactly when the existing file was not accepted and every attempted
\* download ended in a 404, an error or a failed validation.
C13_ReturnValue ==
  dl_pc = "done" =>
    /\ dl_result \in {"path", "none"}
    /\ dl_result = "path" =>
         /\ fs["final"] # None
         /\ fs["final"][1].kind = "valid"
         /\ fs["final"][1].written = fs["final"][1].total
         /\ dl_valid # <<>> /\ dl_valid[Len(dl_valid)].ok
    /\ dl_result = "none" <=>
         /\ ~AcceptedExisting
         /\ \A n \in DOMAIN dl_att : dl_att[n].outcome \in FailedOutcomes

\* C13 witness: the existing file failed validation, a download failed
\* validation, a later download passed and the path was returned
C13_Witness ==
  /\ dl_pc = "done" /\ dl_result = "path"
  /\ Len(dl_valid) = 3
  /\ dl_valid[1] = [which |-> "existing", ok |-> FALSE]
  /\ dl_valid[2] = [which |-> "download", ok |-> FALSE]
  /\ dl_valid[3] = [which |-> "download", ok |-> TRUE]

\* C14: the file at the final path is never a partially written one; while a
\* download streams, and after a stream broke, the final path holds what it
\* held before the stream began.
C14_AtomicFinalPath ==
  dl_pc # "idle" =>
    /\ fs["final"] # None => fs["final"][1].written = fs["final"][1].total
    /\ dl_pc = "streaming" => fs["final"] = dl_snap
    /\ (dl_pc = "backoff" /\ dl_att[Len(dl_att)].outcome = "stream_error") =>
          fs["final"] = dl_snap

\* C14 witness: a stream broke after one chunk was written to the .part
\* file, while the final path holds an earlier complete download
C14_Witness ==
  /\ dl_pc = "backoff" /\ dl_att[Len(dl_att)].outcome = "stream_error"
  /\ fs["part"] # None /\ fs["part"][1].written = 1
  /\ fs["final"] # None /\ fs["final"][1].src = 1

\* the file found at local_path on entry passes validation
ValidExisting == dl_init # None /\ dl_init[1].kind = "valid"

\* C15: with a valid existing file and force false, no request is sent, the
\* file stays as it was and its path is returned; with force true, or with an
\* existing file that fails validation, a download is attempted.
C15_ExistingFile ==
  dl_pc # "idle" =>
    /\ (ValidExisting /\ ~dl_force) =>
         /\ dl_reqs = <<>>
         /\ fs["final"] = dl_init
         /\ dl_pc = "done" => dl_result = "path"
    /\ (dl_pc = "done" /\ (dl_force \/ (dl_init # None /\ ~ValidExisting))) =>
         Len(dl_reqs) >= 1

\* C15 (amended): as C15, the download being attempted when retries is at
\* least 1; with retries = 0 the candidate loops make no attempt.
C15_ExistingFileAttempts ==
  dl_pc # "idle" =>
    /\ (ValidExisting /\ ~dl_force) =>
         /\ dl_reqs = <<>>
         /\ fs["final"] = dl_init
         /\ dl_pc = "done" => dl_result = "path"
    /\ (dl_pc = "done" /\ (dl_force \/ (dl_init # None /\ ~ValidExisting))) =>
         IF dl_retries >= 1 THEN Len(dl_reqs) >= 1
         ELSE dl_reqs = <<>> /\ dl_result = "none"

\* C15 witness: force with a valid existing file: the file was downloaded
\* again and replaced
C15_Witness ==
  /\ dl_pc = "done" /\ dl_force /\ ValidExisting
  /\ Len(dl_reqs) >= 1 /\ fs["final"] # dl_init

\* the attempts that failed otherwise than by a 404
FailedNon404 ==
  LET Failed(a) == a.outcome \in (FailedOutcomes \ {"404"})
  IN SelectSeq(dl_att, Failed)

\* the backoff sleeps made
BackoffSleeps ==
  LET IsBackoff(z) == z.kind = "backoff"
  IN SelectSeq(dl_sleeps, IsBackoff)

\* at most retries requests per candidate URL, and the i-th backoff follows
\* the i-th failed non-404 attempt and lasts 2^k seconds, k being the number
\* of such attempts on that URL so far
AttemptsAndBackoff ==
  dl_pc # "idle" =>
    /\ \A u \in DOMAIN Candidates :
         Cardinality({n \in DOMAIN dl_reqs : dl_reqs[n].url = u}) <= dl_retries
    /\ Len(dl_reqs) <= 2 * dl_retries
    /\ Len(BackoffSleeps) = Len(FailedNon404) - (IF dl_pc = "backoff" THEN 1 ELSE 0)
    /\ \A i \in DOMAIN BackoffSleeps :
         LET k == Cardinality({j \in 1..i : FailedNon404[j].url = FailedNon404[i].url})
         IN /\ BackoffSleeps[i].url = FailedNon404[i].url
            /\ BackoffSleeps[i].secs = 10 * (2 ^ k)

\* C18: download_single_month terminates, with at most retries attempts per
\* candidate URL (at most 2 x retries in total) and a backoff of 2^k seconds
\* after the k-th failed non-404 attempt on a URL.
C18_TerminatesWithBackoff ==
  /\ []AttemptsAndBackoff
  /\ <>(dl_pc = "done")

\* C18 witness: every attempt on both URLs failed with retries = 2, the
\* second backoff on the annual URL lasted 4 seconds, and None was returned
C18_Witness ==
  /\ dl_pc = "done" /\ dl_result = "none" /\ dl_retries = 2
  /\ Len(dl_reqs) = 4 /\ Len(BackoffSleeps) = 4
  /\ BackoffSleeps[4].url = 2 /\ BackoffSleeps[4].secs = 40

\* C16: for an input with at least one row before the cutoff, data_spliter
\* returns (train, test, validation) where validation is exactly the rows
\* dated at or after the cutoff, train and test hold only rows dated before
\* it, the three are pairwise disjoint and every input row is in exactly one.
C16_SplitPartition ==
  (sp_pc \in {"returned", "raised"} /\ sp_hascol /\ ~BadRatio(sp_ratio) /\ NPre >= 1) =>
    /\ sp_pc = "returned"
    /\ LET o == sp_out[1]
       IN /\ o.validation = {i \in DOMAIN sp_dates : sp_dates[i] # NaT /\ sp_dates[i] >= sp_cutoff}
          /\ \A i \in o.train \cup o.test : sp_dates[i] # NaT /\ sp_dates[i] < sp_cutoff
          /\ o.train \cap o.test = {}
          /\ o.train \cap o.validation = {}
          /\ o.test \cap o.validation = {}
          /\ o.train \cup o.test \cup o.validation = DOMAIN sp_dates

\* the index of a month counted from year 0, and the month of an index
MonthIdx(dt) == (12 * dt[1]) + (dt[2] - 1)
MonthOf(i) == <<i \div 12, (i % 12) + 1, 1>>

\* the number of months from start's month through end's month
MonthCount ==
  IF MonthIdx(mr_start) > MonthIdx(mr_end) THEN 0
  ELSE (MonthIdx(mr_end) - MonthIdx(mr_start)) + 1

\* what is yielded is the beginning of the months from start's month on, in
\* order; once exhausted it is all of them through end's month
YieldedMonths ==
  mr_pc # "idle" =>
    /\ Len(mr_out) <= MonthCount
    /\ \A k \in DOMAIN mr_out : mr_out[k] = MonthOf(MonthIdx(mr_start) + (k - 1))
    /\ \A k \in DOMAIN mr_out : \A j \in DOMAIN mr_out :
         j < k => (DateLe(mr_out[j], mr_out[k]) /\ mr_out[j] # mr_out[k])
    /\ mr_pc = "done" => Len(mr_out) = MonthCount

\* C17: _internal_generate_month_range terminates and yields, in strictly
\* increasing order and each once, the first-of-month date of every month
\* from start's month through end's month (December to January included),
\* and nothing when start's month begins after end.
C17_MonthRange ==
  /\ []YieldedMonths
  /\ <>(mr_pc = "done")

\* C17 witness: a finished range that starts after the first of a month,
\* crosses a year end and yielded December then January
C17_Witness ==
  /\ mr_pc = "done" /\ mr_start[3] > 1
  /\ \E k \in DOMAIN mr_out :
       /\ k < Len(mr_out)
       /\ mr_out[k][2] = 12
       /\ mr_out[k + 1] = <<mr_out[k][1] + 1, 1, 1>>

\* C3: in both wrappers the transform is fit on train only: two wrappers of
\* the same class on the same train partition, whatever their test and
\* validation partitions, end with the same fitted transform and the same
\* transformed train output.
C3_FitOnTrainOnly ==
  (pp_out # None /\ pp_prev # None /\ pp_prev[1].cls = pp_w[1].cls) =>
     /\ pp_prev[1].est = pp_w[1].est
     /\ pp_prev[1].train = pp_out[1][1]

\* C3 witness: two RobustScalerWrapper runs on a train partition with a
\* non-zero interquartile range whose test and validation partitions differ
C3_Witness ==
  /\ pp_out # None /\ pp_prev # None
  /\ pp_prev[1].cls = "RobustScalerWrapper" /\ pp_w[1].cls = "RobustScalerWrapper"
  /\ pp_prev[1].test_changed /\ pp_prev[1].val_changed
  /\ pp_w[1].est[1].scale4 = 2

InitGMM == GMM_Idle /\ Search_Idle /\ Prep_Idle /\ Grid_Idle /\ Ext_Idle

NextGMM ==
  \/ \E k \in ParamKeys, v \in 1..MaxK : T_SetParams(k, v)
  \/ T_Build
  \/ T_Fit
  \/ T_Predict

SpecGMM == InitGMM /\ [][NextGMM]_vars

====
